---- MODULE Spec2Model ----
(***************************************************************************)
(* Model of asmtodsk.py: the .COM reconciler                               *)
(* (_remove_com_variants, _normalise_to_single_uppercase_com), the process *)
(* runner FileLogger.stream_proc, the build pipeline App._build_thread,    *)
(* the run worker App._run_thread and App._clean_outputs.                  *)
(*                                                                         *)
(* File names are sequences of one-character strings so that str.lower(),  *)
(* str.upper() and Path.stem are computed, not assumed.  A path is a       *)
(* record [dir, name]; a file system is a function from the paths that     *)
(* exist to [mtime, content].                                              *)
(*                                                                         *)
(* Two platforms are modelled: PosixPath on a case-sensitive file system   *)
(* and WindowsPath (the platform of the tool defaults, lines 35-48) on a   *)
(* case-insensitive, case-preserving one.  File system calls succeed when  *)
(* the directories they need exist, unless the file is in `locked` (it     *)
(* cannot be unlinked or renamed) or the log is in `unwritable`; both sets *)
(* are empty in SpecRec, Spec, SpecRun and SpecUI.                         *)
(*                                                                         *)
(* SpecRec:       direct calls of _normalise_to_single_uppercase_com on    *)
(*                enumerated file systems.                                 *)
(* SpecRecF:      the same with locked files.                              *)
(* Spec:          one build attempt (App._build_thread) with its children. *)
(* SpecFault:     one build attempt with files getting locked and logs     *)
(*                getting unwritable; SpecFaultLive adds fairness.         *)
(* SpecRun:       one Run attempt, with the build it calls when the disk   *)
(*                image is missing, and the emulator.                      *)
(* SpecUI:        the Build, Run and Clean outputs buttons together.       *)
(* SpecEdit:      one build attempt while the source field is edited on   *)
(*                the UI thread.                                           *)
(***************************************************************************)
EXTENDS Integers, Sequences, FiniteSets, TLC

\* ------------------------------------------------------------------ bounds
MaxFiles == 3        \* files present in an enumerated initial file system
MaxTime == 2         \* modification times are drawn from 1..MaxTime

\* ----------------------------------------------------------------- strings
CasePairs ==
  { <<"A", "a">>, <<"C", "c">>, <<"D", "d">>, <<"H", "h">>, <<"I", "i">>,
    <<"K", "k">>, <<"M", "m">>, <<"O", "o">>, <<"P", "p">>, <<"S", "s">>,
    <<"T", "t">>, <<"U", "u">> }

\* str.lower() on one character
LowerChar(c) ==
  IF \E pr \in CasePairs : pr[1] = c
  THEN (CHOOSE pr \in CasePairs : pr[1] = c)[2]
  ELSE c

\* str.upper() on one character
UpperChar(c) ==
  IF \E pr \in CasePairs : pr[2] = c
  THEN (CHOOSE pr \in CasePairs : pr[2] = c)[1]
  ELSE c

Lower(s) == [i \in 1..Len(s) |-> LowerChar(s[i])]
Upper(s) == [i \in 1..Len(s) |-> UpperChar(s[i])]

SetMax(S) == CHOOSE x \in S : \A y \in S : y <= x

\* pathlib PurePath.stem: the name without its last suffix
Stem(n) ==
  LET dots == { i \in 1..Len(n) : n[i] = "." }
      last == SetMax(dots)
  IN  IF dots # {} /\ 1 < last /\ last < Len(n)
      THEN SubSeq(n, 1, last - 1)
      ELSE n

DotComLower == << ".", "c", "o", "m" >>
DotComUpper == << ".", "C", "O", "M" >>
DotDsk == << ".", "d", "s", "k" >>

\* ------------------------------------------------------- platform, paths
\* "posix":   PosixPath compares names exactly, the file system is case-sensitive
\* "windows": WindowsPath compares names case-insensitively, the file system is
\*            case-insensitive and case-preserving
Platforms == { "posix", "windows" }

DirIds == { "W", "S" }

Path(d, n) == [dir |-> d, name |-> n]
NoPath == Path("none", << >>)

VARIABLES
  platform,     \* which pathlib flavour / file system the program runs on
  dirs,         \* the directories that exist
  fs,           \* the files that exist: path -> [mtime, content]
  \* --- arguments and results of a direct call of the reconciler
  wd, asm_dir, base_stem,
  calls,        \* number of completed calls of _normalise_to_single_uppercase_com
  raised,       \* the last call raised
  ret,          \* the value the last call returned
  fs0,          \* file system before the first call
  fs1, ret1,    \* file system and return value after the first call
  \* --- the application (class App) and one build attempt
  var_asm,      \* the source field: a path, or NoPath when empty
  base_upper,   \* App.base_upper
  last_log_path,\* App.last_log_path: a log file name, or NoLog
  status,       \* App.status
  errwin,       \* title of the error window scheduled with root.after, or "none"
  logs,         \* the log files under LOG_DIR: file name -> sequence of lines
  pc,           \* where the build worker is
  loc,          \* locals of _build_thread
  rc, output,   \* what the last stream_proc call returned
  proc,         \* the child process of the running stream_proc call
  hist,         \* history of the attempt (not program state)
  \* --- faults of the file system
  locked,       \* files that cannot be unlinked or renamed (open elsewhere, no permission)
  unwritable,   \* log files that cannot be opened for appending
  \* --- one Run attempt and the user at the window
  rpc,          \* where the run worker is
  rloc,         \* locals of _run_thread
  emu,          \* the emulator: invocations and what existed when it was invoked
  ui            \* what the user has done so far (not program state)

recVars == << wd, asm_dir, base_stem, calls, raised, ret, fs0, fs1, ret1 >>
envVars == << platform, dirs, fs >>
appVars == << var_asm, base_upper, last_log_path, status, errwin, logs, pc, loc,
              rc, output, proc, hist >>
faultVars == << locked, unwritable >>
runVars == << rpc, rloc, emu, ui >>
vars == << envVars, recVars, appVars, faultVars, runVars >>

\* PurePath.__eq__ of the platform's flavour
PathEq(p, q) ==
  /\ p.dir = q.dir
  /\ IF platform = "windows" THEN Lower(p.name) = Lower(q.name)
                              ELSE p.name = q.name

\* the directory entries a path resolves to on the platform's file system
Resolve(f, p) == { q \in DOMAIN f : PathEq(q, p) }

\* Path.exists() / Path.is_file() for a file path
Exists(f, p) == Resolve(f, p) # {}

\* Path.unlink() of an existing file
Unlink(f, p) == [q \in DOMAIN f \ Resolve(f, p) |-> f[q]]

\* Path.replace(dst) (os.replace): the entry moves to dst under dst's spelling,
\* keeping content and modification time, replacing what dst resolved to
Replace(f, src, dst) ==
  LET e == CHOOSE q \in Resolve(f, src) : TRUE
      rest == DOMAIN f \ (Resolve(f, src) \cup Resolve(f, dst))
  IN  [q \in rest \cup {dst} |-> IF q = dst THEN f[e] ELSE f[q]]

\* a file written by a tool: created, or written over what the path resolves to
WriteFile(f, q, file) ==
  LET at == IF Exists(f, q) THEN CHOOSE e \in Resolve(f, q) : TRUE ELSE q
  IN  [e \in DOMAIN f \cup {at} |-> IF e = at THEN file ELSE f[e]]


\* ------------------------------------------------------------ reconciler
\* the files of `folder` whose lower-cased name is <base>.com
ComVariants(f, folder, stem) ==
  { p \in DOMAIN f : p.dir = folder /\ Lower(p.name) = Lower(stem) \o DotComLower }

\* mutant: the name is compared without lower-casing it
RemoveComVariants_ExactName(f, folder, stem) ==
  IF folder \in dirs
  THEN [q \in DOMAIN f \ { p \in ComVariants(f, folder, stem) :
                              p.name = Lower(stem) \o DotComLower } |-> f[q]]
  ELSE f

\* _remove_com_variants: the file system after it.  A missing folder raises
\* FileNotFoundError in iterdir(), which is caught: nothing changes.
RemoveComVariants(f, folder, stem) ==
  IF folder \in dirs
  THEN [q \in DOMAIN f \ ComVariants(f, folder, stem) |-> f[q]]
  ELSE f

\* lines 145-148: p.unlink() of a locked variant raises, and only
\* FileNotFoundError is caught: the exception leaves _remove_com_variants
PurgeRaises(f, folder, stem) ==
  folder \in dirs /\ ComVariants(f, folder, stem) \cap locked # {}

\* the file systems a raising purge can leave: iterdir() yields the entries in
\* arbitrary order, so any of the other variants may be gone already
PurgePartial(f, folder, stem) ==
  { [q \in DOMAIN f \ D |-> f[q]] : D \in SUBSET (ComVariants(f, folder, stem) \ locked) }

\* mutant: every file of the folders is a candidate
Candidates_NoNameFilter(f, w, a, stem) ==
  { p \in DOMAIN f : p.dir \in ({w, a} \cap dirs) }

\* lines 162-166: the candidates of the folders that exist ({wd, asm_dir} is a set)
Candidates(f, w, a, stem) ==
  UNION { ComVariants(f, folder, stem) : folder \in ({w, a} \cap dirs) }

\* mutant: the canonical name gets the lower-case extension
Desired_LowerExt(w, stem) == Path(w, stem \o DotComLower)

\* line 168
Desired(w, stem) == Path(w, stem \o DotComUpper)

\* line 171: desired in candidates (list membership by Path equality)
DesiredInCandidates(f, w, a, stem) ==
  \E c \in Candidates(f, w, a, stem) : PathEq(Desired(w, stem), c)

\* mutant: the newest candidate is kept even when the canonical file exists
KeepChoices_AlwaysNewest(f, w, a, stem) ==
  { c \in Candidates(f, w, a, stem) :
      \A d \in Candidates(f, w, a, stem) : f[d].mtime <= f[c].mtime }

\* lines 171-174: the paths `keep` can be.  max() returns the first candidate of
\* greatest st_mtime in list order, and the list order (set iteration, iterdir)
\* is arbitrary: any candidate of greatest st_mtime can be the one.
KeepChoices(f, w, a, stem) ==
  LET cands == Candidates(f, w, a, stem)
  IN  IF DesiredInCandidates(f, w, a, stem)
      THEN { Desired(w, stem) }
      ELSE { c \in cands : \A d \in cands : f[d].mtime <= f[c].mtime }

\* mutant: the loop does not spare `desired`
DeleteOthers_AlsoDesired(f, cands, desired) ==
  LET gone == UNION { Resolve(f, p) : p \in { c \in cands : Exists(f, c) } }
  IN  [q \in DOMAIN f \ gone |-> f[q]]

\* lines 183-188: every candidate that still exists and is not `desired` is
\* unlinked; an unlink that fails is passed over
DeleteOthers(f, cands, desired) ==
  LET gone == UNION { Resolve(f, p) : p \in { c \in cands : Exists(f, c) /\ ~PathEq(c, desired) } }
  IN  [q \in DOMAIN f \ (gone \ locked) |-> f[q]]

\* lines 176-181: keep.replace(desired), then shutil.move as the fallback.  Both
\* need the directory of `desired` and a `keep` that can be renamed or unlinked;
\* otherwise shutil.move raises as well and the exception leaves the function.
MoveRaises(w, keep, desired) ==
  ~PathEq(keep, desired) /\ (w \notin dirs \/ keep \in locked)

\* what a raising move leaves: nothing changed, or (shutil.move copied `keep`
\* with copy2 and then failed to unlink it) a copy at `desired`
MoveLeaves(f, w, keep, desired) ==
  IF w \in dirs THEN { f, WriteFile(f, desired, f[keep]) } ELSE { f }

\* _normalise_to_single_uppercase_com: the outcomes [fs, raised, ret] of one call
NormaliseOutcomes(f, w, a, stem) ==
  LET cands == Candidates(f, w, a, stem)
      desired == Desired(w, stem)
      keeps == KeepChoices(f, w, a, stem)
  IN  IF keeps = {}
      THEN { [fs |-> f, raised |-> FALSE, ret |-> desired] }
      ELSE UNION {
             IF MoveRaises(w, keep, desired)
             THEN { [fs |-> g, raised |-> TRUE, ret |-> NoPath] :
                      g \in MoveLeaves(f, w, keep, desired) }
             ELSE LET moved == IF PathEq(keep, desired) THEN f
                               ELSE Replace(f, keep, desired)
                  IN  { [fs |-> DeleteOthers(moved, cands, desired),
                         raised |-> FALSE, ret |-> desired] }
             : keep \in keeps }

\* ------------------------------------------------------------ log files
\* a log line: kind, text, a path or name it mentions, a number it mentions
Line(k, t, q, n) == [k |-> k, t |-> t, p |-> q, n |-> n]

NoLog == << >>
\* line 468: LOG_DIR / f"{base}_build.log"
LogName(base) == base \o << "_build.log" >>

\* FileLogger._write: open(..., "a") creates the file if needed and appends
LogWrite(lg, name, lines) ==
  [q \in DOMAIN lg \cup {name} |->
     (IF q \in DOMAIN lg THEN lg[q] ELSE << >>) \o (IF q = name THEN lines ELSE << >>)]

\* FileLogger.__init__ appends the header line (the time stamp is left out)
Header == Line("header", "TatungBytes Toolkit v1.4.8", NoPath, 0)
NewLogger(lg, name) == LogWrite(lg, name, << Header >>)

\* FileLogger.cmd: the "$ ..." line of a command; q is the file the command names
CmdLine(tool, q) == Line("$", tool, q, 0)

\* line 130: the diagnostic of a process that could not be started
StartFailure(tool) == Line("Failed to start process", tool, NoPath, 0)

\* the i-th output line of a child
OutLine(tool, i) == Line("out", tool, NoPath, i)

\* ---------------------------------------------------------- application
WorkDir == "W"                        \* var_workdir
OUTPUT == << "O", "U", "T", "P", "U", "T" >>
DotAsm == << ".", "a", "s", "m" >>
DotO == << ".", "o" >>

\* _on_asm_changed (the strip() of the field is left out: names carry no blanks)
OnAsmChanged(src) == IF src = NoPath THEN << >> ELSE Upper(Stem(src.name))

\* _out_paths: the names derived for an attempt (wd.mkdir is done by the caller)
OutPaths(src, bu) ==
  LET base == IF bu # << >> THEN bu
              ELSE IF src # NoPath THEN Upper(Stem(src.name)) ELSE OUTPUT
      stem == IF src = NoPath THEN << >> ELSE Stem(src.name)
  IN  [wd |-> WorkDir, base |-> base,
       com |-> Path(WorkDir, base \o DotComUpper),
       dsk |-> Path(WorkDir, base \o DotDsk),
       obj |-> Path(WorkDir, stem \o DotO),
       log |-> LogName(base)]

\* lines 526-535, 559-563: if p.exists(): p.unlink(), a failure passed over
UnlinkIfExists(f, q) ==
  IF Exists(f, q) /\ Resolve(f, q) \cap locked = {} THEN Unlink(f, q) ELSE f

\* mutant: no exit code is taken as a failure
ToolFailed_Never(r) == r # r

\* mutant: exit code 1 is not taken as a failure
ToolFailed_Above1(r) == r > 1

\* lines 542, 578: the tool failed
ToolFailed(r) == r # 0

\* mutant: the source is not checked
AsmExists_Unchecked(f, src) == src = src

\* line 506: asm.exists()
AsmExists(f, src) == Exists(f, src)

\* mutant: the failure carries no diagnostic text
StartFailureResult_NoText(tool) == [rc |-> 1, out |-> SubSeq(<< StartFailure(tool) >>, 1, 0)]

\* lines 128-132: what stream_proc returns when the process cannot be started
StartFailureResult(tool) == [rc |-> 1, out |-> << StartFailure(tool) >>]

Status(msg, com, dsk) == [msg |-> msg, com |-> com, dsk |-> dsk]
NoProc == [tool |-> "none", st |-> "none", pipe |-> << >>, emitted |-> << >>,
           code |-> 0, nwrites |-> 0]
NoLoc == [asm |-> NoPath, wd |-> "none", base |-> << >>, com |-> NoPath,
          dsk |-> NoPath, obj |-> NoPath, log |-> NoLog, asm_dir |-> "none",
          final_com |-> NoPath, lines |-> << >>]
NoHist == [invoked |-> << >>, logs0 |-> << >>, srcExisted |-> FALSE,
           comAtAsmExit |-> FALSE, asmWroteCom |-> FALSE, asmCode |-> -1,
           packCode |-> -1, dskWritten |-> FALSE, norm |-> 0,
           coms0 |-> 0]

\* the application right after construction, with no attempt started
AppIdle ==
  /\ var_asm = NoPath
  /\ base_upper = << >>
  /\ last_log_path = NoLog
  /\ status = Status("", << >>, << >>)
  /\ errwin = "none"
  /\ logs = << >>
  /\ pc = "off"
  /\ loc = NoLoc
  /\ rc = 0
  /\ output = << >>
  /\ proc = NoProc
  /\ hist = NoHist

\* a file system without faults
NoFaults ==
  /\ locked = {}
  /\ unwritable = {}

NoRLoc == [base |-> << >>, dsk |-> NoPath, log |-> NoLog, dos80 |-> NoPath,
           builds |-> 0, dsk0 |-> FALSE]
NoEmu == [n |-> 0, st |-> "none", dskThere |-> FALSE, dos80There |-> FALSE,
          code |-> 0, emitted |-> << >>]
NoUi == [runs |-> 0, cleans |-> 0]

\* no Run attempt started
RunIdle ==
  /\ rpc = "off"
  /\ rloc = NoRLoc
  /\ emu = NoEmu
  /\ ui = NoUi

\* ------------------------------------------- direct calls of the reconciler
HI == << "H", "I" >>
HO == << "H", "O" >>
Bases == { HI, HO }

\* the file names of the enumerated file systems
RecNames ==
  { HI \o DotComUpper, Lower(HI) \o DotComLower, << "H", "i", ".", "C", "o", "m" >>,
    HO \o DotComUpper, HI \o DotDsk }
RecPaths == { Path(d, n) : d \in DirIds, n \in RecNames }

\* a file that was there before: its content is named by where it was
OldFile(p, t) == [mtime |-> t, content |-> [by |-> "old", at |-> p]]

\* the platform's file system admits f: files live in directories that exist,
\* and a case-insensitive directory holds one spelling of a name
WellFormed(f, ds, plat) ==
  /\ \A p \in DOMAIN f : p.dir \in ds
  /\ plat = "windows" =>
       \A p, q \in DOMAIN f :
         (p.dir = q.dir /\ Lower(p.name) = Lower(q.name)) => p = q

FileSystems(ds, plat) ==
  { f \in UNION { [D -> 1..MaxTime] : D \in { X \in SUBSET RecPaths : Cardinality(X) <= MaxFiles } } :
      WellFormed(f, ds, plat) }

InitRec ==
  /\ platform \in Platforms
  /\ dirs \in SUBSET DirIds
  /\ \E m \in FileSystems(dirs, platform) :
       fs = [p \in DOMAIN m |-> OldFile(p, m[p])]
  /\ wd = "W"
  /\ asm_dir \in DirIds
  /\ base_stem \in Bases
  /\ calls = 0
  /\ raised = FALSE
  /\ ret = NoPath
  /\ fs0 = fs
  /\ fs1 = fs
  /\ ret1 = NoPath
  /\ AppIdle
  /\ NoFaults
  /\ RunIdle

\* one call of _normalise_to_single_uppercase_com(wd, asm_dir, base_stem); a second
\* call follows the first with nothing in between
Normalise ==
  /\ calls < 2
  /\ \E o \in NormaliseOutcomes(fs, wd, asm_dir, base_stem) :
       /\ fs' = o.fs
       /\ raised' = o.raised
       /\ ret' = o.ret
       /\ fs1' = IF calls = 0 THEN o.fs ELSE fs1
       /\ ret1' = IF calls = 0 THEN o.ret ELSE ret1
  /\ calls' = calls + 1
  /\ UNCHANGED << platform, dirs, wd, asm_dir, base_stem, fs0, appVars, faultVars, runVars >>

NextRec == Normalise

SpecRec == InitRec /\ [][NextRec]_vars

\* direct calls with both directories there and some of the files locked
InitRecF ==
  /\ platform \in Platforms
  /\ dirs = DirIds
  /\ \E m \in FileSystems(dirs, platform) :
       fs = [p \in DOMAIN m |-> OldFile(p, m[p])]
  /\ locked \in SUBSET DOMAIN fs
  /\ unwritable = {}
  /\ wd = "W"
  /\ asm_dir \in DirIds
  /\ base_stem \in Bases
  /\ calls = 0
  /\ raised = FALSE
  /\ ret = NoPath
  /\ fs0 = fs
  /\ fs1 = fs
  /\ ret1 = NoPath
  /\ AppIdle
  /\ RunIdle

SpecRecF == InitRecF /\ [][NextRec]_vars

\* ------------------------------------------------------ one build attempt
MaxOut == 2          \* output lines a child writes
MaxWrites == 1       \* files a child writes
ExitCodes == { 0, 2 }

SrcPaths == { Path("S", Lower(HI) \o DotAsm), Path("W", Lower(HI) \o DotAsm) }

\* what earlier runs can have left in the two directories
OldPaths ==
  { Path("W", HI \o DotComUpper), Path("W", Lower(HI) \o DotComLower),
    Path("S", HI \o DotComUpper), Path("S", Lower(HI) \o DotComLower),
    Path("W", HI \o DotDsk), Path("W", Lower(HI) \o DotO) }

OldFileSystems(ds, plat) ==
  { f \in UNION { [D -> 1..MaxTime] : D \in { X \in SUBSET OldPaths : Cardinality(X) <= MaxFiles } } :
      WellFormed(f, ds, plat) }

\* the application with a source chosen in the source field (so that
\* _on_asm_changed has set base_upper), what earlier runs left on disk, and
\* possibly the log of an earlier build of the same base
Init ==
  /\ platform \in Platforms
  /\ dirs \in { {"S"}, {"W", "S"} }
  /\ var_asm \in SrcPaths
  /\ \E m \in OldFileSystems(dirs, platform), srcThere \in BOOLEAN :
       /\ srcThere => var_asm.dir \in dirs
       /\ fs = [q \in DOMAIN m \cup (IF srcThere THEN {var_asm} ELSE {}) |->
                  IF q \in DOMAIN m THEN OldFile(q, m[q]) ELSE OldFile(q, 1)]
  /\ base_upper = OnAsmChanged(var_asm)
  /\ \E before \in BOOLEAN :
       /\ logs = IF before THEN NewLogger(<< >>, LogName(base_upper)) ELSE << >>
       /\ last_log_path = IF before THEN LogName(base_upper) ELSE NoLog
  /\ status = Status("", << >>, << >>)
  /\ errwin = "none"
  /\ pc = "idle"
  /\ loc = NoLoc
  /\ rc = 0
  /\ output = << >>
  /\ proc = NoProc
  /\ hist = NoHist
  /\ wd = "W" /\ asm_dir = "S" /\ base_stem = HI /\ calls = 0 /\ raised = FALSE
  /\ ret = NoPath /\ fs0 = << >> /\ fs1 = << >> /\ ret1 = NoPath
  /\ NoFaults
  /\ RunIdle

\* lines 499-500: the Build button starts the worker
StartBuild ==
  /\ pc = "idle"
  /\ pc' = "validating"
  /\ hist' = [NoHist EXCEPT !.logs0 = logs, !.srcExisted = Exists(fs, var_asm),
                             !.coms0 = Cardinality(
                                ComVariants(fs, WorkDir, OnAsmChanged(var_asm))
                                \cup ComVariants(fs, var_asm.dir, OnAsmChanged(var_asm)))]
  /\ UNCHANGED << envVars, recVars, faultVars, runVars, var_asm, base_upper, last_log_path, status,
                  errwin, logs, loc, rc, output, proc >>

\* the exception the except clause catches: str(e) and type(e).__name__
ExcMsg == "e"
ExcType == "type(e).__name__"

\* line 600: f"FATAL: {e}"
FatalLine == Line("FATAL", ExcMsg, NoPath, 0)

\* lines 601-606: the text of the error window
ErrorWindowText == << "Unexpected error:", ExcType, ExcMsg >>

\* FileLogger._write on the log file `name` raises
LogFails(name) == name \in unwritable

\* mutant: the status is set after the line is logged
HandlerStatus_AfterLog(old, logFails) ==
  IF logFails THEN old ELSE Status("Build failed: e", << >>, << >>)

\* line 598 comes before the log is touched
HandlerStatus(old, logFails) == Status("Build failed: e", << >>, << >>)

\* lines 597-606: the except clause of _build_thread.  When the log of
\* last_log_path cannot be written, FileLogger raises inside the clause and the
\* thread ends there: no FATAL line, no error window.
Handler(lg) ==
  LET fails == last_log_path' # NoLog /\ LogFails(last_log_path')
  IN  /\ status' = HandlerStatus(status, fails)
      /\ IF fails
         THEN /\ logs' = lg
              /\ errwin' = errwin
         ELSE /\ logs' = IF last_log_path' # NoLog
                         THEN LogWrite(NewLogger(lg, last_log_path'), last_log_path',
                                       << FatalLine >>)
                         ELSE lg
              /\ errwin' = "Build Error"
      /\ pc' = "done"

\* lines 503-516: the source is checked, the names are derived, the log is opened
Validate ==
  /\ pc = "validating"
  /\ IF ~AsmExists(fs, var_asm)
     THEN /\ status' = Status("Error: Source .asm not found.", << >>, << >>)
          /\ pc' = "done"
          /\ UNCHANGED << dirs, logs, last_log_path, loc, errwin >>
     ELSE LET o == OutPaths(var_asm, base_upper)
          IN  /\ dirs' = dirs \cup { o.wd }
              /\ IF LogFails(o.log)
                 THEN /\ last_log_path' = last_log_path
                      /\ Handler(logs)
                      /\ loc' = loc
                 ELSE /\ status' = Status("Building...", << >>, << >>)
                      /\ logs' = LogWrite(NewLogger(logs, o.log), o.log,
                                    << Line("Project", "", var_asm, 0),
                                       Line("Working folder", "", Path(o.wd, << >>), 0),
                                       Line("Derived base", "", Path("", o.base), 0) >>)
                      /\ last_log_path' = o.log
                      /\ loc' = [NoLoc EXCEPT !.asm = var_asm, !.wd = o.wd, !.base = o.base,
                                              !.com = o.com, !.dsk = o.dsk, !.obj = o.obj,
                                              !.log = o.log]
                      /\ pc' = "clean"
                      /\ errwin' = errwin
  /\ UNCHANGED << platform, fs, recVars, faultVars, runVars, var_asm, base_upper, rc,
                  output, proc, hist >>

\* lines 521-535: prior .com variants in both folders, the object file and the
\* disk image are removed
Clean ==
  /\ pc = "clean"
  /\ last_log_path' = last_log_path
  /\ LET a == loc.asm.dir
         f1 == RemoveComVariants(fs, loc.wd, loc.base)
         f2 == IF a # loc.wd THEN RemoveComVariants(f1, a, loc.base) ELSE f1
         f3 == UnlinkIfExists(f2, loc.obj)
     IN  /\ loc' = [loc EXCEPT !.asm_dir = a]
         /\ IF PurgeRaises(fs, loc.wd, loc.base)
            THEN /\ fs' \in PurgePartial(fs, loc.wd, loc.base)
                 /\ Handler(logs)
            ELSE IF a # loc.wd /\ PurgeRaises(f1, a, loc.base)
            THEN /\ fs' \in PurgePartial(f1, a, loc.base)
                 /\ Handler(logs)
            ELSE /\ fs' = UnlinkIfExists(f3, loc.dsk)
                 /\ pc' = "assemble"
                 /\ UNCHANGED << status, errwin, logs >>
  /\ UNCHANGED << platform, dirs, recVars, faultVars, runVars, var_asm, base_upper,
                  rc, output, proc, hist >>

\* stream_proc, lines 117-132: the command line is logged and the process is
\* started; if it cannot be started the diagnostic is logged and (1, msg) returned
StreamStart(tool, arg, running, returned) ==
  IF LogFails(loc.log)
  THEN /\ Handler(logs)
       /\ UNCHANGED << hist, loc, proc, rc, output >>
  ELSE
  /\ hist' = [hist EXCEPT !.invoked = Append(@, tool), !.coms0 = 0]
  /\ loc' = [loc EXCEPT !.lines = << >>]
  /\ UNCHANGED << status, errwin >>
  /\ \E started \in BOOLEAN :
       IF started
       THEN /\ logs' = LogWrite(logs, loc.log, << CmdLine(tool, arg) >>)
            /\ proc' = [NoProc EXCEPT !.tool = tool, !.st = "running"]
            /\ pc' = running
            /\ UNCHANGED << rc, output >>
       ELSE LET r == StartFailureResult(tool)
            IN  /\ logs' = LogWrite(logs, loc.log, << CmdLine(tool, arg) >> \o r.out)
                /\ proc' = [NoProc EXCEPT !.tool = tool, !.st = "nostart"]
                /\ rc' = r.rc
                /\ output' = r.out
                /\ pc' = returned

\* lines 537-541: the assembler is invoked on the source with the output hint
AssembleStart ==
  /\ pc = "assemble"
  /\ last_log_path' = last_log_path
  /\ StreamStart("z80asm", loc.asm, "assembling", "assembled")
  /\ UNCHANGED << envVars, recVars, faultVars, runVars, var_asm, base_upper >>

\* the child writes a line to its merged stdout/stderr
ChildEmit ==
  /\ proc.st = "running"
  /\ Len(proc.emitted) < MaxOut
  /\ LET l == OutLine(proc.tool, Len(proc.emitted) + 1)
     IN  proc' = [proc EXCEPT !.pipe = Append(@, l), !.emitted = Append(@, l)]
  /\ UNCHANGED << envVars, recVars, faultVars, runVars, var_asm, base_upper, last_log_path, status,
                  errwin, logs, pc, loc, rc, output, hist >>

\* the files a tool may write: the assembler the binary (as hinted or in lower
\* case, next to the source or in the working folder) and the object file, the
\* packager the disk image and a lower-case copy of the binary
ToolPaths(tool) ==
  IF tool = "z80asm"
  THEN { Path(d, n) : d \in { loc.wd, loc.asm_dir },
                      n \in { loc.com.name, Lower(loc.com.name) } } \cup { loc.obj }
  ELSE { loc.dsk, Path(loc.wd, Lower(loc.com.name)) }

ChildWrite ==
  /\ proc.st = "running"
  /\ proc.nwrites < MaxWrites
  /\ \E q \in ToolPaths(proc.tool), t \in 1..MaxTime :
       /\ q.dir \in dirs
       /\ fs' = WriteFile(fs, q, [mtime |-> t, content |-> [by |-> proc.tool, at |-> q]])
       /\ hist' = [hist EXCEPT
                     !.dskWritten = @ \/ (proc.tool = "appmake" /\ q = loc.dsk)]
  /\ proc' = [proc EXCEPT !.nwrites = @ + 1]
  /\ UNCHANGED << platform, dirs, recVars, faultVars, runVars, var_asm, base_upper, last_log_path,
                  status, errwin, logs, pc, loc, rc, output >>

\* the child exits
ChildExit ==
  /\ proc.st = "running"
  /\ \E c \in ExitCodes :
       /\ proc' = [proc EXCEPT !.st = "exited", !.code = c]
       /\ hist' = IF proc.tool = "z80asm"
                  THEN LET coms == ComVariants(fs, loc.wd, loc.base)
                                     \cup ComVariants(fs, loc.asm_dir, loc.base)
                       IN  [hist EXCEPT !.asmCode = c,
                              !.comAtAsmExit = (coms # {}),
                              !.asmWroteCom = \E q \in coms : fs[q].content.by = "z80asm"]
                  ELSE [hist EXCEPT !.packCode = c]
  /\ UNCHANGED << envVars, recVars, faultVars, runVars, var_asm, base_upper, last_log_path, status,
                  errwin, logs, pc, loc, rc, output >>

\* mutant: the captured lines are kept newest first
Captured_NewestFirst(lines, l) == << l >> \o lines

\* line 137: lines.append(line)
Captured(lines, l) == Append(lines, l)

\* lines 135-137: a line of the child is written to the log and kept
StreamRead ==
  /\ pc \in { "assembling", "packaging" }
  /\ proc.pipe # << >>
  /\ proc' = [proc EXCEPT !.pipe = Tail(@)]
  /\ last_log_path' = last_log_path
  /\ IF LogFails(loc.log)
     THEN /\ Handler(logs)
          /\ loc' = loc
     ELSE /\ logs' = LogWrite(logs, loc.log, << Head(proc.pipe) >>)
          /\ loc' = [loc EXCEPT !.lines = Captured(@, Head(proc.pipe))]
          /\ UNCHANGED << status, errwin, pc >>
  /\ UNCHANGED << envVars, recVars, faultVars, runVars, var_asm, base_upper,
                  rc, output, hist >>

\* lines 138-139: end of the stream, proc.wait(), return (rc, text)
StreamReturn ==
  /\ pc \in { "assembling", "packaging" }
  /\ proc.st = "exited"
  /\ proc.pipe = << >>
  /\ rc' = proc.code
  /\ output' = loc.lines
  /\ pc' = IF pc = "assembling" THEN "assembled" ELSE "packaged"
  /\ UNCHANGED << envVars, recVars, faultVars, runVars, var_asm, base_upper, last_log_path, status,
                  errwin, logs, loc, proc, hist >>

\* lines 542-563: the assembler's exit code is checked, the binary is
\* reconciled and must exist, the object file is removed
AfterAssemble ==
  /\ pc = "assembled"
  /\ last_log_path' = last_log_path
  /\ IF ToolFailed(rc)
     THEN /\ IF LogFails(loc.log)
             THEN Handler(logs)
             ELSE /\ status' = Status("Build failed - see log.", << >>, << >>)
                  /\ logs' = LogWrite(logs, loc.log, << Line("ERROR: assembler failed rc", "", NoPath, rc) >>)
                  /\ errwin' = "Assembly Error"
                  /\ pc' = "done"
          /\ UNCHANGED << fs, loc, hist >>
     ELSE /\ hist' = [hist EXCEPT !.norm = @ + 1]
          /\ \E o \in NormaliseOutcomes(fs, loc.wd, loc.asm_dir, loc.base) :
            /\ fs' = IF ~o.raised /\ Exists(o.fs, o.ret)
                     THEN UnlinkIfExists(o.fs, loc.obj) ELSE o.fs
            /\ IF o.raised
               THEN /\ Handler(logs)
                    /\ loc' = loc
               ELSE IF ~Exists(o.fs, o.ret)
               THEN /\ IF LogFails(loc.log)
                       THEN Handler(logs)
                       ELSE /\ status' = Status("Error: COM was not created. See log.", << >>, << >>)
                            /\ logs' = LogWrite(logs, loc.log, << Line("ERROR: COM not produced.", "", NoPath, 0) >>)
                            /\ pc' = "done"
                            /\ errwin' = errwin
                    /\ loc' = loc
               ELSE /\ loc' = [loc EXCEPT !.final_com = o.ret]
                    /\ pc' = "package"
                    /\ UNCHANGED << status, logs, errwin >>
  /\ UNCHANGED << platform, dirs, recVars, faultVars, runVars, var_asm, base_upper, rc, output, proc >>

\* lines 565-577: the packager is invoked on the reconciled binary's name
PackageStart ==
  /\ pc = "package"
  /\ last_log_path' = last_log_path
  /\ StreamStart("appmake", loc.final_com, "packaging", "packaged")
  /\ UNCHANGED << envVars, recVars, faultVars, runVars, var_asm, base_upper >>

\* lines 578-596: the packager's exit code is checked, the binary is reconciled
\* again and the success is reported
AfterPackage ==
  /\ pc = "packaged"
  /\ last_log_path' = last_log_path
  /\ IF ToolFailed(rc)
     THEN /\ IF LogFails(loc.log)
             THEN Handler(logs)
             ELSE /\ status' = Status("Build failed - see log.", << >>, << >>)
                  /\ logs' = LogWrite(logs, loc.log, << Line("ERROR: appmake failed rc", "", NoPath, rc) >>)
                  /\ errwin' = "Disk Image Error"
                  /\ pc' = "done"
          /\ UNCHANGED << fs, loc, hist >>
     ELSE /\ hist' = [hist EXCEPT !.norm = @ + 1]
          /\ \E o \in NormaliseOutcomes(fs, loc.wd, loc.asm_dir, loc.base) :
            /\ fs' = o.fs
            /\ IF o.raised \/ LogFails(loc.log)
               THEN /\ Handler(logs)
                    /\ loc' = IF o.raised THEN loc ELSE [loc EXCEPT !.final_com = o.ret]
               ELSE /\ loc' = [loc EXCEPT !.final_com = o.ret]
                    /\ status' = Status("Build OK", o.ret.name, loc.dsk.name)
                    /\ logs' = LogWrite(logs, loc.log,
                                  << Line("BUILD SUCCEEDED", "", NoPath, 0),
                                     Line("COM", "", o.ret, 0),
                                     Line("DSK", "", loc.dsk, 0),
                                     Line("Log saved to", "", Path("Logs", loc.log), 0) >>)
                    /\ pc' = "done"
                    /\ UNCHANGED errwin
  /\ UNCHANGED << platform, dirs, recVars, faultVars, runVars, var_asm, base_upper, rc, output, proc >>

Next ==
  \/ StartBuild \/ Validate \/ Clean
  \/ AssembleStart \/ ChildEmit \/ ChildWrite \/ ChildExit
  \/ StreamRead \/ StreamReturn
  \/ AfterAssemble \/ PackageStart \/ AfterPackage

Spec == Init /\ [][Next]_vars

\* ------------------------------------- one build attempt with file faults
MaxLocked == 1       \* files that become locked

OtherBases == { HO }

\* Windows, where a file open in another program cannot be unlinked or renamed;
\* the source is there; an earlier run may have left a binary in either
\* folder, and an earlier attempt, of this base or of another one, its log
InitFault ==
  /\ platform = "windows"
  /\ dirs = DirIds
  /\ var_asm = Path("S", Lower(HI) \o DotAsm)
  /\ \E D \in SUBSET { Path("W", HI \o DotComUpper), Path("S", Lower(HI) \o DotComLower) } :
       fs = [q \in D \cup {var_asm} |-> OldFile(q, 1)]
  /\ base_upper = OnAsmChanged(var_asm)
  /\ last_log_path \in { NoLog, LogName(base_upper) } \cup { LogName(b) : b \in OtherBases }
  /\ logs = IF last_log_path = NoLog THEN << >> ELSE NewLogger(<< >>, last_log_path)
  /\ status = Status("", << >>, << >>)
  /\ errwin = "none"
  /\ pc = "idle"
  /\ loc = NoLoc
  /\ rc = 0
  /\ output = << >>
  /\ proc = NoProc
  /\ hist = NoHist
  /\ wd = "W" /\ asm_dir = "S" /\ base_stem = HI /\ calls = 0 /\ raised = FALSE
  /\ ret = NoPath /\ fs0 = << >> /\ fs1 = << >> /\ ret1 = NoPath
  /\ NoFaults
  /\ RunIdle

\* a file other than the source becomes locked: another program opens it.
\* A lock matters to the worker's next file operation only (the purge, the two
\* reconciliations), so it is taken right before one.
LockFile ==
  /\ pc \in { "idle", "assembled", "packaged" }
  /\ Cardinality(locked) < MaxLocked
  /\ \E q \in DOMAIN fs \ {var_asm} : locked' = locked \cup {q}
  /\ UNCHANGED << envVars, recVars, appVars, unwritable, runVars >>

\* a log file can no longer be opened for appending: the log of the attempt's
\* base at any time, the log of another base while the attempt can still
\* write to it (until Validate has set last_log_path)
LogFault ==
  /\ unwritable = {}
  /\ \/ /\ pc \notin { "done" }
        /\ unwritable' = { LogName(base_upper) }
     \/ /\ pc \in { "idle", "validating" }
        /\ \E b \in OtherBases : unwritable' = { LogName(b) }
  /\ UNCHANGED << envVars, recVars, appVars, locked, runVars >>

NextFault == Next \/ LockFile \/ LogFault

SpecFault == InitFault /\ [][NextFault]_vars

\* the steps of the build worker
Worker ==
  \/ Validate \/ Clean \/ AssembleStart \/ StreamRead \/ StreamReturn
  \/ AfterAssemble \/ PackageStart \/ AfterPackage

\* a started thread keeps being scheduled, and a started child exits
SpecFaultLive ==
  InitFault /\ [][NextFault]_vars /\ WF_vars(Worker) /\ WF_vars(ChildExit)

\* ------------------------------------------------------- one Run attempt
\* var_dos80: the system disk
Dos80 == Path("M", << "d", "o", "s", "8", "0", ".", "d", "s", "k" >>)

\* the source field names S/hi.asm; the source, the disk image of an earlier
\* build and the system disk may each be there or not
InitRun ==
  /\ platform \in Platforms
  /\ dirs = DirIds
  /\ var_asm = Path("S", Lower(HI) \o DotAsm)
  /\ \E D \in SUBSET { var_asm, Path("W", HI \o DotDsk), Dos80 } :
       fs = [q \in D |-> OldFile(q, 1)]
  /\ base_upper = OnAsmChanged(var_asm)
  /\ last_log_path = NoLog
  /\ logs = << >>
  /\ status = Status("", << >>, << >>)
  /\ errwin = "none"
  /\ pc = "idle"
  /\ loc = NoLoc
  /\ rc = 0
  /\ output = << >>
  /\ proc = NoProc
  /\ hist = NoHist
  /\ wd = "W" /\ asm_dir = "S" /\ base_stem = HI /\ calls = 0 /\ raised = FALSE
  /\ ret = NoPath /\ fs0 = << >> /\ fs1 = << >> /\ ret1 = NoPath
  /\ NoFaults
  /\ rpc = "idle"
  /\ rloc = NoRLoc
  /\ emu = NoEmu
  /\ ui = NoUi

\* lines 633-634: the Run button starts the worker
StartRun ==
  /\ rpc = "idle"
  /\ rpc' = "open"
  /\ ui' = [ui EXCEPT !.runs = @ + 1]
  /\ UNCHANGED << envVars, recVars, appVars, faultVars, rloc, emu >>

\* mutant: the disk image is never taken to be missing
DskAbsent_Never(f, dsk) == dsk # dsk

\* lines 643, 646: not dsk.exists()
DskAbsent(f, dsk) == ~Exists(f, dsk)

\* lines 638-645: the names are derived, the log is opened; without a disk
\* image the worker calls _build_thread itself
RunOpen ==
  /\ rpc = "open"
  /\ LET o == OutPaths(var_asm, base_upper)
         lg == NewLogger(logs, o.log)
     IN  /\ dirs' = dirs \cup { o.wd }
         /\ last_log_path' = o.log
         /\ status' = Status("Launching MAME...", << >>, << >>)
         /\ IF DskAbsent(fs, o.dsk)
            THEN /\ pc = "idle"       \* one instance of _build_thread is modelled
                 /\ logs' = LogWrite(lg, o.log, << Line("No .dsk found, building first...", "", NoPath, 0) >>)
                 /\ rloc' = [NoRLoc EXCEPT !.base = o.base, !.dsk = o.dsk, !.log = o.log,
                                           !.builds = 1, !.dsk0 = Exists(fs, o.dsk)]
                 /\ rpc' = "fallback"
                 /\ pc' = "validating"
                 /\ hist' = [NoHist EXCEPT !.logs0 = logs', !.srcExisted = Exists(fs, var_asm)]
            ELSE /\ logs' = lg
                 /\ rloc' = [NoRLoc EXCEPT !.base = o.base, !.dsk = o.dsk, !.log = o.log,
                                           !.dsk0 = Exists(fs, o.dsk)]
                 /\ rpc' = "checked"
                 /\ UNCHANGED << pc, hist >>
  /\ UNCHANGED << platform, fs, recVars, faultVars, var_asm, base_upper, errwin, loc,
                  rc, output, proc, emu, ui >>

\* lines 646-649: _build_thread has returned; the disk image must be there now
RunAfterBuild ==
  /\ rpc = "fallback"
  /\ pc = "done"
  /\ IF DskAbsent(fs, rloc.dsk)
     THEN /\ status' = Status("Cannot run - .dsk not available.", << >>, << >>)
          /\ logs' = LogWrite(logs, rloc.log, << Line("ERROR: .dsk not available after build.", "", NoPath, 0) >>)
          /\ rpc' = "done"
     ELSE /\ rpc' = "checked"
          /\ UNCHANGED << status, logs >>
  /\ UNCHANGED << envVars, recVars, faultVars, var_asm, base_upper, last_log_path,
                  errwin, pc, loc, rc, output, proc, hist, rloc, emu, ui >>

\* lines 651-661: the system disk must exist
RunCheckSystemDisk ==
  /\ rpc = "checked"
  /\ rloc' = [rloc EXCEPT !.dos80 = Dos80]
  /\ IF ~Exists(fs, Dos80)
     THEN /\ status' = Status("Error: System Disk not found.", << >>, << >>)
          /\ logs' = LogWrite(logs, rloc.log, << Line("ERROR: System Disk .dsk missing.", "", NoPath, 0) >>)
          /\ errwin' = "MAME Error"
          /\ rpc' = "done"
     ELSE /\ rpc' = "invoke"
          /\ UNCHANGED << status, logs, errwin >>
  /\ UNCHANGED << envVars, recVars, faultVars, var_asm, base_upper, last_log_path,
                  pc, loc, rc, output, proc, hist, emu, ui >>

\* lines 663-689 and 117-132: the emulator is invoked on the two disks
RunInvoke ==
  /\ rpc = "invoke"
  /\ \E started \in BOOLEAN :
       /\ emu' = [NoEmu EXCEPT !.n = emu.n + 1,
                               !.st = IF started THEN "running" ELSE "nostart",
                               !.dskThere = Exists(fs, rloc.dsk),
                               !.dos80There = Exists(fs, rloc.dos80)]
       /\ logs' = LogWrite(logs, rloc.log,
                    << CmdLine("mame", rloc.dsk) >>
                    \o (IF started THEN << >> ELSE StartFailureResult("mame").out))
  /\ rpc' = "emulating"
  /\ UNCHANGED << envVars, recVars, faultVars, var_asm, base_upper, last_log_path,
                  status, errwin, pc, loc, rc, output, proc, hist, rloc, ui >>

\* the emulator writes its output and exits
EmuExit ==
  /\ emu.st = "running"
  /\ \E c \in ExitCodes, n \in 0..MaxOut :
       emu' = [emu EXCEPT !.st = "exited", !.code = c,
                          !.emitted = [i \in 1..n |-> OutLine("mame", i)]]
  /\ UNCHANGED << envVars, recVars, appVars, faultVars, rpc, rloc, ui >>

\* lines 135-139 and 690-700: the emulator's lines are logged, its exit code
\* is checked and the result is reported
RunReturn ==
  /\ rpc = "emulating"
  /\ emu.st \in { "exited", "nostart" }
  /\ LET r == IF emu.st = "nostart" THEN StartFailureResult("mame")
              ELSE [rc |-> emu.code, out |-> emu.emitted]
         lg == IF emu.st = "nostart" THEN logs
               ELSE LogWrite(logs, rloc.log, emu.emitted)
     IN  IF ToolFailed(r.rc)
         THEN /\ status' = Status("MAME failed - see log.", << >>, << >>)
              /\ logs' = LogWrite(lg, rloc.log, << Line("ERROR: MAME failed rc", "", NoPath, r.rc) >>)
              /\ errwin' = "MAME Error"
         ELSE /\ status' = Status("MAME finished. See log for details.", << >>, << >>)
              /\ logs' = LogWrite(lg, rloc.log, << Line("MAME FINISHED", "", NoPath, 0) >>)
              /\ errwin' = errwin
  /\ rpc' = "done"
  /\ UNCHANGED << envVars, recVars, faultVars, var_asm, base_upper, last_log_path,
                  pc, loc, rc, output, proc, hist, rloc, emu, ui >>

\* the build pipeline without the Build button: _build_thread called by the
\* run worker
Pipeline ==
  \/ Validate \/ Clean
  \/ AssembleStart \/ ChildEmit \/ ChildWrite \/ ChildExit
  \/ StreamRead \/ StreamReturn
  \/ AfterAssemble \/ PackageStart \/ AfterPackage

NextRun ==
  \/ StartRun \/ RunOpen \/ Pipeline \/ RunAfterBuild
  \/ RunCheckSystemDisk \/ RunInvoke \/ EmuExit \/ RunReturn

SpecRun == InitRun /\ [][NextRun]_vars

\* ------------------------------------------- the three buttons together
MaxCleans == 1       \* times the user presses Clean outputs

\* lines 609-630: Clean outputs, run by the window's thread at any time
CleanOutputs ==
  /\ ui.cleans < MaxCleans
  /\ ui' = [ui EXCEPT !.cleans = @ + 1]
  /\ LET o == OutPaths(var_asm, base_upper)
         a == IF Exists(fs, var_asm) THEN var_asm.dir ELSE o.wd
         f1 == UnlinkIfExists(fs, Path(o.wd, o.base \o DotComUpper))
         f2 == UnlinkIfExists(f1, Path(o.wd, o.base \o DotComLower))
         f3 == UnlinkIfExists(f2, Path(a, o.base \o DotComUpper))
         f4 == UnlinkIfExists(f3, Path(a, o.base \o DotComLower))
         f5 == UnlinkIfExists(f4, o.dsk)
     IN  /\ dirs' = dirs \cup { o.wd }
         /\ fs' = UnlinkIfExists(f5, o.obj)
         /\ logs' = [n \in DOMAIN logs \ { o.log } |-> logs[n]]
  /\ status' = Status("Removed", << >>, << >>)
  /\ UNCHANGED << platform, recVars, faultVars, var_asm, base_upper, last_log_path,
                  errwin, pc, loc, rc, output, proc, hist, rpc, rloc, emu >>

\* the user presses Clean outputs while no worker runs
CleanWhenQuiet ==
  /\ pc \in { "idle", "done" }
  /\ rpc \in { "idle", "done" }
  /\ CleanOutputs

\* the source and the system disk are there, the disk image may be
InitUI ==
  /\ InitRun
  /\ { var_asm, Dos80 } \subseteq DOMAIN fs

\* the emulator runs until the user closes its window; the user does so
\* while no build is in flight
EmuClosedWhenQuiet ==
  /\ pc \in { "idle", "done" }
  /\ EmuExit

\* the Build, Run and Clean outputs buttons: nothing keeps the user from
\* pressing Build or Run while a worker runs
NextUI ==
  \/ StartBuild \/ StartRun \/ CleanWhenQuiet
  \/ Pipeline
  \/ RunOpen \/ RunAfterBuild \/ RunCheckSystemDisk \/ RunInvoke
  \/ EmuClosedWhenQuiet \/ RunReturn

SpecUI == InitUI /\ [][NextUI]_vars

\* ------------------------- one build attempt while the source field is edited
\* the sources the user can put into the source field
EditPaths == { Path("S", Lower(HI) \o DotAsm), Path("S", Lower(HO) \o DotAsm) }

\* both sources are there, HI is in the source field; an earlier run may have
\* left a binary of either base in the working folder
InitEdit ==
  /\ platform \in Platforms
  /\ dirs = DirIds
  /\ var_asm = Path("S", Lower(HI) \o DotAsm)
  /\ \E D \in SUBSET { Path("W", HI \o DotComUpper), Path("W", HO \o DotComUpper) } :
       fs = [q \in D \cup EditPaths |-> OldFile(q, 1)]
  /\ base_upper = OnAsmChanged(var_asm)
  /\ last_log_path = NoLog
  /\ logs = << >>
  /\ status = Status("", << >>, << >>)
  /\ errwin = "none"
  /\ pc = "idle"
  /\ loc = NoLoc
  /\ rc = 0
  /\ output = << >>
  /\ proc = NoProc
  /\ hist = NoHist
  /\ wd = "W" /\ asm_dir = "S" /\ base_stem = HI /\ calls = 0 /\ raised = FALSE
  /\ ret = NoPath /\ fs0 = << >> /\ fs1 = << >> /\ ret1 = NoPath
  /\ NoFaults
  /\ RunIdle

\* the UI thread: the user picks another source; the write trace on var_asm
\* (line 225) runs _on_asm_changed (lines 438-443) in the same callback
EditSource ==
  /\ pc # "off"
  /\ \E src \in EditPaths \ { var_asm } :
       /\ var_asm' = src
       /\ base_upper' = OnAsmChanged(src)
  /\ UNCHANGED << envVars, recVars, faultVars, runVars, last_log_path, status, errwin,
                  logs, pc, loc, rc, output, proc, hist >>

\* lines 503-508: the worker reads the source field and checks that the file
\* is there
ReadSource ==
  /\ pc = "validating"
  /\ IF ~AsmExists(fs, var_asm)
     THEN /\ status' = Status("Error: Source .asm not found.", << >>, << >>)
          /\ pc' = "done"
          /\ loc' = loc
     ELSE /\ status' = Status("Building...", << >>, << >>)
          /\ loc' = [NoLoc EXCEPT !.asm = var_asm]
          /\ pc' = "derive"
  /\ UNCHANGED << envVars, recVars, faultVars, runVars, var_asm, base_upper,
                  last_log_path, errwin, logs, rc, output, proc, hist >>

\* lines 510-516: _out_paths reads base_upper and the source field as they are
\* now; the log is opened under the derived name
DerivePaths ==
  /\ pc = "derive"
  /\ LET o == OutPaths(var_asm, base_upper)
     IN  /\ dirs' = dirs \cup { o.wd }
         /\ IF LogFails(o.log)
            THEN /\ last_log_path' = last_log_path
                 /\ Handler(logs)
                 /\ loc' = loc
            ELSE /\ logs' = LogWrite(NewLogger(logs, o.log), o.log,
                               << Line("Project", "", loc.asm, 0),
                                  Line("Working folder", "", Path(o.wd, << >>), 0),
                                  Line("Derived base", "", Path("", o.base), 0) >>)
                 /\ last_log_path' = o.log
                 /\ loc' = [loc EXCEPT !.wd = o.wd, !.base = o.base, !.com = o.com,
                                       !.dsk = o.dsk, !.obj = o.obj, !.log = o.log]
                 /\ pc' = "clean"
                 /\ UNCHANGED << status, errwin >>
  /\ UNCHANGED << platform, fs, recVars, faultVars, runVars, var_asm, base_upper, rc,
                  output, proc, hist >>

NextEdit ==
  \/ StartBuild \/ EditSource \/ ReadSource \/ DerivePaths \/ Clean
  \/ AssembleStart \/ ChildEmit \/ ChildWrite \/ ChildExit
  \/ StreamRead \/ StreamReturn
  \/ AfterAssemble \/ PackageStart \/ AfterPackage

SpecEdit == InitEdit /\ [][NextEdit]_vars

\* ----------------------------------------------- claims on the reconciler
\* the files of f in the two given directories named <base>.com in any letter case
Variants(f) ==
  { p \in DOMAIN f : p.dir \in {wd, asm_dir}
                     /\ Lower(p.name) = Lower(base_stem) \o << ".", "c", "o", "m" >> }

\* the canonical path W/B.COM, spelled out
Canonical == Path(wd, base_stem \o << ".", "C", "O", "M" >>)

\* C1: with W # S both existing and at least one case variant of B.com before
\* the call, after the call returns exactly one variant exists across W and S
\* and it is W/B.COM in the upper-case spelling.
C1_SingleUppercaseCom ==
  (calls >= 1 /\ wd # asm_dir /\ {wd, asm_dir} \subseteq dirs /\ Variants(fs0) # {})
    => (~raised /\ Variants(fs) = { Canonical })

\* C2: a second call right after the first leaves the file system as the first
\* call left it and returns the same path.
C2_Idempotent ==
  calls = 2 => (fs = fs1 /\ ret = ret1)

C2_Witness ==
  calls = 2 /\ ~raised /\ fs1 # fs0

C4_ToleratesMissingDir ==
  (calls >= 1 /\ ~({wd, asm_dir} \subseteq dirs)) => ~raised

\* C5: with no case variant of B.com in W or S the call returns W/B.COM, no
\* file is at that path, the file system is unchanged and nothing is raised.
C5_ZeroCandidates ==
  (calls >= 1 /\ Variants(fs0) = {})
    => (~raised /\ ret = Canonical /\ ~Exists(fs, Canonical) /\ fs = fs0)

C5_Witness ==
  calls = 1 /\ Variants(fs0) = {} /\ Cardinality(DOMAIN fs0) = MaxFiles

\* C17: a file-system error while the call deletes or moves a candidate is
\* passed over: the call does not raise, returns W/B.COM, and every other
\* candidate that can be removed is removed.
C17_ErrorsSwallowed ==
  (calls >= 1 /\ locked # {})
    => /\ ~raised
       /\ ret = Canonical
       /\ \A c \in Variants(fs) : c \in locked \/ PathEq(c, Canonical)

\* C21: a call only moves and deletes: every file that is not a case variant
\* of B.com in W or S is left as it was, the number of files does not grow,
\* and a file at W/B.COM afterwards holds what one of the candidates held
\* before the call.
C21_OnlyMovesAndDeletes ==
  calls = 1
    => /\ \A p \in DOMAIN fs0 \ Variants(fs0) :
            p \in DOMAIN fs /\ fs[p] = fs0[p]
       /\ Cardinality(DOMAIN fs) <= Cardinality(DOMAIN fs0)
       /\ \A now \in Resolve(fs, Canonical) :
            \E c \in Variants(fs0) : fs[now] = fs0[c]

\* ------------------------------------------- claims on the build attempt
Range(q) == { q[i] : i \in 1..Len(q) }

\* the Build Outcome that the status, the error window and the log show
Outcome ==
  CASE status.msg = "Build OK" -> "Succeeded"
    [] status.msg = "Build failed - see log." /\ errwin = "Assembly Error" -> "FailedAssembly"
    [] status.msg = "Build failed - see log." /\ errwin = "Disk Image Error" -> "FailedPackaging"
    [] status.msg = "Error: COM was not created. See log." -> "FailedMissingArtifact"
    [] status.msg = "Build failed: e" -> "FailedUnexpectedError"
    [] status.msg = "Error: Source .asm not found." -> "SourceNotFound"
    [] OTHER -> "none"

\* the lines the attempt has appended to the log file `name`
Appended(name) ==
  LET now == IF name \in DOMAIN logs THEN logs[name] ELSE << >>
      was == IF name \in DOMAIN hist.logs0 THEN hist.logs0[name] ELSE << >>
  IN  SubSeq(now, Len(was) + 1, Len(now))

\* the base identifier and the log file of the attempt's source
SrcBase == Upper(Stem(var_asm.name))
SrcLog == SrcBase \o << "_build.log" >>

\* the assembler was invoked and could not be started or exited non-zero
AsmFailed ==
  /\ hist.invoked # << >>
  /\ \/ hist.asmCode > 0
     \/ proc.tool = "z80asm" /\ proc.st = "nostart"

\* C6: once the assembler has failed (non-zero exit or launch failure) the
\* packager is never invoked, the attempt ends in FailedAssembly, and the
\* lines it appended hold the assembler's $ line and no $ line of the packager.
C6_FailedAssembly ==
  AsmFailed =>
    /\ hist.invoked = << "z80asm" >>
    /\ pc \in { "assembling", "assembled", "done" }
    /\ pc = "done" =>
         /\ Outcome = "FailedAssembly"
         /\ \E l \in Range(Appended(SrcLog)) : l.k = "$" /\ l.t = "z80asm"
         /\ \A n \in DOMAIN logs :
              \A l \in Range(Appended(n)) : ~(l.k = "$" /\ l.t = "appmake")

C6_Witness ==
  pc = "done" /\ AsmFailed /\ hist.asmCode = 2 /\ Len(output) = MaxOut

\* the case variants of BASE.com in the working and the source directory
BuildComs ==
  { q \in DOMAIN fs : q.dir \in { WorkDir, var_asm.dir }
                      /\ Lower(q.name) = Lower(SrcBase) \o << ".", "c", "o", "m" >> }

\* C7: if the assembler exits 0 and no case variant of BASE.com exists then,
\* the attempt ends in FailedMissingArtifact without the packager; and from
\* the moment the assembler is invoked no variant left by an earlier run exists.
C7_MissingArtifact ==
  /\ (hist.asmCode = 0 /\ ~hist.comAtAsmExit) =>
       /\ hist.invoked = << "z80asm" >>
       /\ pc \in { "assembling", "assembled", "done" }
       /\ pc = "done" => Outcome = "FailedMissingArtifact"
  /\ hist.invoked # << >> => \A q \in BuildComs : fs[q].content.by # "old"

C7_Witness ==
  /\ pc = "done" /\ hist.asmCode = 0 /\ ~hist.comAtAsmExit
  /\ Outcome = "FailedMissingArtifact"

\* C8: an attempt whose source does not exist when it starts invokes no
\* subprocess, appends nothing to any log, changes no file or directory and
\* ends at once with the source-not-found status.
C8_SourceMissing ==
  /\ [](( pc # "idle" /\ ~hist.srcExisted ) =>
          /\ pc \in { "validating", "done" }
          /\ hist.invoked = << >>
          /\ proc.st = "none"
          /\ logs = hist.logs0
          /\ pc = "done" => Outcome = "SourceNotFound")
  /\ [][( ~Exists(fs, var_asm) /\ pc \in { "idle", "validating" } )
          => ( fs' = fs /\ dirs' = dirs )]_vars

C8_Witness ==
  /\ pc = "done" /\ ~hist.srcExisted /\ Outcome = "SourceNotFound"
  /\ BuildComs # {} /\ hist.logs0 # << >>

\* C9: source present, assembler exits 0 having written a case variant of
\* BASE.com into W or the source directory, packager exits 0 having written
\* W/BASE.dsk: the attempt ends in Success, reports W/BASE.COM and
\* W/BASE.dsk, and appends the success marker to the log.
C9_Success ==
  ( hist.srcExisted /\ hist.asmCode = 0 /\ hist.asmWroteCom
    /\ hist.packCode = 0 /\ hist.dskWritten )
  => /\ pc \in { "packaging", "packaged", "done" }
     /\ pc = "done" =>
          /\ Outcome = "Succeeded"
          /\ loc.final_com = Path(WorkDir, SrcBase \o << ".", "C", "O", "M" >>)
          /\ status.com = SrcBase \o << ".", "C", "O", "M" >>
          /\ status.dsk = SrcBase \o << ".", "d", "s", "k" >>
          /\ \E i \in 1..Len(Appended(SrcLog)) - 2 :
               /\ Appended(SrcLog)[i].k = "BUILD SUCCEEDED"
               /\ Appended(SrcLog)[i + 1]
                    = Line("COM", "", Path(WorkDir, SrcBase \o << ".", "C", "O", "M" >>), 0)
               /\ Appended(SrcLog)[i + 2]
                    = Line("DSK", "", Path(WorkDir, SrcBase \o << ".", "d", "s", "k" >>), 0)

C9_Witness ==
  /\ pc = "done" /\ Outcome = "Succeeded"
  /\ hist.srcExisted /\ hist.asmCode = 0 /\ hist.asmWroteCom
  /\ hist.packCode = 0 /\ hist.dskWritten
  /\ var_asm.dir # WorkDir

\* C10: when stream_proc has returned: if the process could not be started it
\* returned 1 and a non-empty diagnostic, which is the log's last line, right
\* after the $ line; otherwise it returned the child's exit code, zero or not,
\* and the child's whole output in order.
C10_StreamProcReturns ==
  pc \in { "assembled", "packaged" } =>
    LET lg == logs[loc.log]
    IN  IF proc.st = "nostart"
        THEN /\ rc = 1
             /\ output # << >>
             /\ Len(lg) >= 2
             /\ lg[Len(lg) - 1].k = "$" /\ lg[Len(lg) - 1].t = proc.tool
             /\ << lg[Len(lg)] >> = output
        ELSE /\ proc.st = "exited"
             /\ rc = proc.code
             /\ output = proc.emitted

C10_Witness ==
  pc = "packaged" /\ proc.st = "nostart"

\* C14: at the moment the assembler is invoked, the source has been checked
\* and no case variant of BASE.com exists in W or in the source directory; no
\* tool has run before the purge.
C14_PurgeBeforeAssemble ==
  /\ pc = "assemble" => ( BuildComs = {} /\ hist.srcExisted /\ hist.invoked = << >> )
  /\ hist.invoked # << >> => hist.srcExisted
  /\ pc \in { "idle", "validating", "clean" } => hist.invoked = << >>

C14_Witness ==
  pc = "assemble" /\ hist.coms0 >= 2 /\ var_asm.dir # WorkDir

\* the stages an attempt has gone through, in order
Stages == { << >>, << "z80asm" >>, << "z80asm", "appmake" >> }

\* C16: the assembler and the packager are invoked at most once each and in
\* that order; the packager only after the assembler exited 0 and the first
\* reconciliation found W/BASE.COM; the second reconciliation only after the
\* packager exited 0.
C16_SequentialStages ==
  /\ hist.invoked \in Stages
  /\ hist.norm \in 0..2
  /\ hist.norm >= 1 => hist.asmCode = 0
  /\ pc = "package" =>
       /\ hist.norm = 1
       /\ loc.final_com = Path(WorkDir, SrcBase \o << ".", "C", "O", "M" >>)
       /\ Exists(fs, loc.final_com)
  /\ Len(hist.invoked) = 2 => ( hist.asmCode = 0 /\ hist.norm >= 1 )
  /\ hist.norm = 2 => ( Len(hist.invoked) = 2 /\ hist.packCode = 0 )
  /\ ( Len(hist.invoked) = 2 /\ hist.packCode # 0 ) => hist.norm = 1

C16_Witness ==
  pc = "done" /\ hist.norm = 2 /\ hist.invoked = << "z80asm", "appmake" >>

\* C20: while stream_proc runs and when it has returned, the log ends with the
\* $ line of the command followed by the lines captured so far; these are, in
\* order, the lines the child has written and the worker has received; and
\* the text returned is those lines.
C20_StreamOrder ==
  pc \in { "assembling", "packaging", "assembled", "packaged" } =>
    LET lg == logs[loc.log]
        got == IF proc.st = "nostart" THEN output ELSE loc.lines
        k == Len(got)
    IN  /\ Len(lg) > k
        /\ lg[Len(lg) - k].k = "$" /\ lg[Len(lg) - k].t = proc.tool
        /\ SubSeq(lg, Len(lg) - k + 1, Len(lg)) = got
        /\ proc.st # "nostart" =>
             /\ k <= Len(proc.emitted)
             /\ got = SubSeq(proc.emitted, 1, k)
             /\ got \o proc.pipe = proc.emitted
        /\ pc \in { "assembled", "packaged" } => output = got

C20_Witness ==
  /\ pc = "packaging" /\ Len(loc.lines) = 1 /\ Len(proc.emitted) = MaxOut
  /\ proc.st = "running"

\* the outcomes an attempt can end in
TerminalOutcomes ==
  { "Succeeded", "FailedAssembly", "FailedMissingArtifact", "FailedPackaging",
    "FailedUnexpectedError", "SourceNotFound" }

\* C15: every started attempt, whatever fails on the way (the write of the
\* failure's own log line included), ends with one terminal outcome shown as
\* the status, and the status then stays.
C15_Terminates ==
  /\ (pc = "validating") ~> (pc = "done" /\ Outcome \in TerminalOutcomes)
  /\ [][pc = "done" => (pc' = "done" /\ status' = status)]_vars

C15_Witness ==
  /\ pc = "done" /\ hist.asmCode = 2 /\ unwritable # {}
  /\ Outcome = "FailedUnexpectedError" /\ errwin = "none"

\* C18: when the except clause has handled an exception and a log handle
\* exists, the lines appended to that log record the error's message and its
\* type.
C18_FaultRecorded ==
  ( pc = "done" /\ Outcome = "FailedUnexpectedError" /\ errwin = "Build Error"
    /\ last_log_path # NoLog )
  => /\ \E l \in Range(Appended(last_log_path)) : l.k = "FATAL" /\ l.t = ExcMsg
     /\ \E l \in Range(Appended(last_log_path)) : ExcType \in { l.k, l.t }

\* C19: every line an attempt appends, the line of an unexpected fault
\* included, goes to the log of the attempt's own base; the log of no other
\* base is modified.
C19_OwnLogOnly ==
  pc # "idle" =>
    \A n \in DOMAIN logs : n # SrcLog => Appended(n) = << >>

\* C13: in a Run attempt the emulator is invoked at most once and only with
\* the disk image and the system disk there; _build_thread is called at most
\* once, and only when the disk image was missing; and an attempt that ends
\* with the disk image or the system disk missing has not invoked the
\* emulator and shows the failure.
C13_RunGuards ==
  /\ emu.n <= 1
  /\ emu.n = 1 => ( emu.dskThere /\ emu.dos80There )
  /\ rloc.builds <= 1
  /\ rpc \in { "fallback", "checked", "invoke", "emulating", "done" } =>
       ( rloc.builds = 1 <=> ~rloc.dsk0 )
  /\ rpc = "fallback" => emu.n = 0
  /\ ( rpc = "done" /\ ~Exists(fs, rloc.dsk) ) =>
       ( emu.n = 0 /\ status.msg = "Cannot run - .dsk not available." )
  /\ ( rpc = "done" /\ Exists(fs, rloc.dsk) /\ ~Exists(fs, Dos80) ) =>
       ( emu.n = 0 /\ status.msg = "Error: System Disk not found."
         /\ errwin = "MAME Error" )

C13_Witness ==
  /\ rpc = "done" /\ emu.n = 1 /\ rloc.builds = 1
  /\ hist.dskWritten /\ emu.st = "exited"

\* C11: a log file is only ever appended to: in every step, every log file
\* that exists still exists afterwards and its content is a prefix of its
\* content afterwards.
C11_AppendOnly ==
  [][\A n \in DOMAIN logs :
        /\ n \in DOMAIN logs'
        /\ Len(logs[n]) <= Len(logs'[n])
        /\ SubSeq(logs'[n], 1, Len(logs[n])) = logs[n]]_vars

\* C12: the build worker and the run worker are never active together.
C12_OneWorker ==
  ~( pc \notin { "idle", "done" } /\ rpc \notin { "idle", "done", "fallback" } )

\* C22: the base identifier of a build attempt is one value, the upper-cased
\* stem of the source whose existence was checked and that goes to the
\* assembler: the purge, the output hint, the reconciliations, the disk image
\* and the log all carry it, whatever is done to the source field meanwhile.
C22_BaseOfCheckedSource ==
  loc.base # << >>
    => /\ loc.base = Upper(Stem(loc.asm.name))
       /\ loc.com = Path(loc.wd, Upper(Stem(loc.asm.name)) \o DotComUpper)
       /\ loc.dsk = Path(loc.wd, Upper(Stem(loc.asm.name)) \o DotDsk)
       /\ loc.log = LogName(Upper(Stem(loc.asm.name)))

\* the file at path q was written by a tool of this attempt
Produced(q) ==
  /\ Exists(fs, q)
  /\ \A r \in Resolve(fs, q) : fs[r].content.by # "old"

\* C23: whenever an attempt reports Success, a file is at the reported binary
\* path W/BASE.COM and one at the reported disk-image path W/BASE.dsk, and
\* both were written during this attempt.
C23_SuccessHasArtifacts ==
  ( pc = "done" /\ Outcome = "Succeeded" )
    => /\ Produced(Path(loc.wd, status.com))
       /\ Produced(Path(loc.wd, status.dsk))

====
